---- MODULE Spec2Model ----
(***************************************************************************)
(* Model of the lip-sync preprocessing scripts                             *)
(*   scripts/preprocess_lipsync.py   (process_video and its helpers)       *)
(*   scripts/detect_mouth_positions.py (detect_mouth_positions)            *)
(*   scripts/convert_npz_to_json.py    (convert_npz_to_json)               *)
(*                                                                         *)
(* Python floats are modelled as rationals [n, d] in lowest terms.  The    *)
(* float64 arithmetic of the smoothing filter rounds every result to the   *)
(* nearest representable value (Fl), with a significand of SignificandBits *)
(* bits in place of 53; elsewhere the arithmetic is exact.  Images are     *)
(* modelled as                                                             *)
(* records that name the decoded frame they come from and the operation    *)
(* that produced them; OpenCV calls are uninterpreted except for their     *)
(* outcome (value or cv2.error).  The optional debug video of either       *)
(* script is not modelled.                                                 *)
(***************************************************************************)
EXTENDS Integers, Sequences, FiniteSets, TLC

(***************************************************************************)
(* Bounds of the model                                                     *)
(***************************************************************************)
MaxFrames == 3      \* frames the video stream can deliver
MaxLen == 4         \* length of a position list handed to a pure function
SignificandBits == 4    \* bits of a float's significand (float64 has 53)
StepLen == 6        \* length of a step signal handed to the smoothing filter
RefLongLen == 40    \* length of a long clip handed to find_best_reference_frame

(***************************************************************************)
(* Exact arithmetic standing for Python float arithmetic                   *)
(***************************************************************************)
Abs(x) == IF x < 0 THEN -x ELSE x

RECURSIVE GCD(_, _)
GCD(a, b) == IF b = 0 THEN a ELSE GCD(b, a % b)

Rat(n, d) ==
    LET g == GCD(Abs(n), Abs(d))
        s == IF d < 0 THEN -1 ELSE 1
    IN  [n |-> (s * n) \div g, d |-> (s * d) \div g]

R(k) == [n |-> k, d |-> 1]
LCM(a, b) == (a \div GCD(a, b)) * b
\* a + b and a - b over the least common denominator
RAdd(a, b) ==
    LET l == LCM(a.d, b.d) IN Rat(a.n * (l \div a.d) + b.n * (l \div b.d), l)
RSub(a, b) ==
    LET l == LCM(a.d, b.d) IN Rat(a.n * (l \div a.d) - b.n * (l \div b.d), l)
RMul(a, b) == Rat(a.n * b.n, a.d * b.d)
RDiv(a, b) == Rat(a.n * b.d, a.d * b.n)
RLt(a, b) == RSub(a, b).n < 0
RLe(a, b) == RSub(a, b).n <= 0
RMax(a, b) == IF RLt(b, a) THEN a ELSE b   \* Python max(a, b): b unless a > b

Zero == R(0)
One == R(1)

(***************************************************************************)
(* float64 rounding: round to nearest, ties to even, on a significand of   *)
(* SignificandBits bits; the exponent range is not limited (no overflow or *)
(* underflow at the magnitudes of pixel coordinates).                      *)
(***************************************************************************)
\* n/d rounded to the nearest integer, ties to the even one
FlRound(n, d) ==
    LET q == n \div d
        r == n - q * d
    IN  IF 2 * r > d \/ (2 * r = d /\ q % 2 = 1) THEN q + 1 ELSE q

\* (n/d) * 2^e for n/d > 0: scale n/d into [2^(p-1), 2^p), round, scale back
RECURSIVE FlPos(_, _, _)
FlPos(n, d, e) ==
    IF n >= d * 2^SignificandBits THEN FlPos(n, 2 * d, e + 1)
    ELSE IF n < d * 2^(SignificandBits - 1) THEN FlPos(2 * n, d, e - 1)
    ELSE IF e >= 0 THEN R(FlRound(n, d) * 2^e)
    ELSE Rat(FlRound(n, d), 2^(-e))

\* the float nearest to the real number x
Fl(x) ==
    IF x.n = 0 THEN x
    ELSE IF x.n > 0 THEN FlPos(x.n, x.d, 0)
    ELSE RSub(Zero, FlPos(-x.n, x.d, 0))

(***************************************************************************)
(* Position records                                                        *)
(***************************************************************************)
keys == {"centerX", "centerY", "width", "height", "rotation"}

\* faulty variant: confidence >= 0 counts as valid
valid_indices_ge(positions) ==
    {i \in 0..(Len(positions) - 1) : RLe(Zero, positions[i + 1].confidence)}

\* the indices i (0-based) of positions with confidence > 0
valid_indices(positions) ==
    {i \in 0..(Len(positions) - 1) : RLt(Zero, positions[i + 1].confidence)}

\* a finite set of integers in ascending order, as the list comprehension yields it
RECURSIVE SortedSeq(_)
SortedSeq(S) ==
    IF S = {} THEN <<>>
    ELSE LET m == CHOOSE x \in S : \A y \in S : x <= y
         IN  <<m>> \o SortedSeq(S \ {m})

(***************************************************************************)
(* interpolate_invalid_positions                                           *)
(***************************************************************************)
NoIdx == -1   \* Python None for prev_idx / next_idx

\* the scan "for vi in valid_indices" of the code, run to its end or its break
RECURSIVE ScanNeighbours(_, _, _, _)
ScanNeighbours(vis, i, prev_idx, next_idx) ==
    IF vis = <<>> THEN <<prev_idx, next_idx>>
    ELSE LET vi == Head(vis) IN
         IF vi < i THEN ScanNeighbours(Tail(vis), i, vi, next_idx)
         ELSE IF vi > i /\ next_idx = NoIdx THEN <<prev_idx, vi>>
         ELSE ScanNeighbours(Tail(vis), i, prev_idx, next_idx)

\* faulty variant: interpolates from the far end (v1 + t*(v1 - v0))
Lerp_from_v1(v0, v1, t) == RAdd(v1, RMul(t, RSub(v1, v0)))

\* v0 + t * (v1 - v0)
Lerp(v0, v1, t) == RAdd(v0, RMul(t, RSub(v1, v0)))

\* faulty variant: a record filled between two detections is left at confidence 0
ConfInterpolated_not_marked == Zero

ConfInterpolated == Rat(1, 2)

\* faulty variant: a copied record is marked like an interpolated one
ConfCopied_as_interpolated == Rat(1, 2)

ConfCopied == Rat(3, 10)

\* faulty variant: a record with a valid record on one side only becomes a
\* copy of that whole record, frameIndex and timeSeconds included
FillOne_copies_record(positions, vis, i) ==
    LET pos == positions[i + 1]
        pn == ScanNeighbours(vis, i, NoIdx, NoIdx)
        prev_idx == pn[1]
        next_idx == pn[2]
    IN  IF prev_idx # NoIdx /\ next_idx # NoIdx THEN
            LET t == Rat(i - prev_idx, next_idx - prev_idx)
                p0 == positions[prev_idx + 1]
                p1 == positions[next_idx + 1]
            IN  [pos EXCEPT !.centerX = Lerp(p0.centerX, p1.centerX, t),
                            !.centerY = Lerp(p0.centerY, p1.centerY, t),
                            !.width = Lerp(p0.width, p1.width, t),
                            !.height = Lerp(p0.height, p1.height, t),
                            !.rotation = Lerp(p0.rotation, p1.rotation, t),
                            !.confidence = ConfInterpolated]
        ELSE IF prev_idx # NoIdx THEN
            [positions[prev_idx + 1] EXCEPT !.confidence = ConfCopied]
        ELSE IF next_idx # NoIdx THEN
            [positions[next_idx + 1] EXCEPT !.confidence = ConfCopied]
        ELSE pos

\* the body of the loop for a record with confidence <= 0
FillOne(positions, vis, i) ==
    LET pos == positions[i + 1]
        pn == ScanNeighbours(vis, i, NoIdx, NoIdx)
        prev_idx == pn[1]
        next_idx == pn[2]
    IN  IF prev_idx # NoIdx /\ next_idx # NoIdx THEN
            LET t == Rat(i - prev_idx, next_idx - prev_idx)
                p0 == positions[prev_idx + 1]
                p1 == positions[next_idx + 1]
            IN  [pos EXCEPT !.centerX = Lerp(p0.centerX, p1.centerX, t),
                            !.centerY = Lerp(p0.centerY, p1.centerY, t),
                            !.width = Lerp(p0.width, p1.width, t),
                            !.height = Lerp(p0.height, p1.height, t),
                            !.rotation = Lerp(p0.rotation, p1.rotation, t),
                            !.confidence = ConfInterpolated]
        ELSE IF prev_idx # NoIdx THEN
            LET p0 == positions[prev_idx + 1]
            IN  [pos EXCEPT !.centerX = p0.centerX, !.centerY = p0.centerY,
                            !.width = p0.width, !.height = p0.height,
                            !.rotation = p0.rotation,
                            !.confidence = ConfCopied]
        ELSE IF next_idx # NoIdx THEN
            LET p1 == positions[next_idx + 1]
            IN  [pos EXCEPT !.centerX = p1.centerX, !.centerY = p1.centerY,
                            !.width = p1.width, !.height = p1.height,
                            !.rotation = p1.rotation,
                            !.confidence = ConfCopied]
        ELSE pos

\* faulty variant: the "continue" for records with confidence > 0 is missing
InterpolateOne_no_skip(positions, vis, i) == FillOne(positions, vis, i)

\* one iteration of "for i, pos in enumerate(result)"
InterpolateOne(positions, vis, i) ==
    IF RLt(Zero, positions[i + 1].confidence) THEN positions[i + 1]
    ELSE FillOne(positions, vis, i)

interpolate_invalid_positions(positions) ==
    IF Len(positions) = 0 THEN positions
    ELSE LET vs == valid_indices(positions) IN
         IF Cardinality(vs) = 0 THEN positions
         ELSE [k \in 1..Len(positions) |->
                  InterpolateOne(positions, SortedSeq(vs), k - 1)]

(***************************************************************************)
(* one_pole_beta and smooth_positions_zero_phase                           *)
(* The cutoff is carried as the angular frequency w = 2*pi*cutoff_hz, an   *)
(* integer, so that rc = 1/w and beta = dt/(rc+dt) are rational; the sign  *)
(* tests on cutoff_hz and on w agree.                                      *)
(***************************************************************************)
one_pole_beta(cutoff_w, fps) ==
    IF cutoff_w <= 0 \/ fps <= 0 THEN Zero
    ELSE LET rc == Fl(Rat(1, cutoff_w))
             dt == Fl(Rat(1, fps))
         IN  Fl(RDiv(dt, Fl(RAdd(rc, dt))))

\* faulty variant: the old value is weighted by beta too, so the two weights
\* do not add up to 1
Ema_weights_not_complementary(beta, x, prev) ==
    Fl(RAdd(Fl(RMul(beta, x)), Fl(RMul(beta, prev))))

\* one step of the filter: beta * x + (1 - beta) * prev
Ema(beta, x, prev) ==
    Fl(RAdd(Fl(RMul(beta, x)), Fl(RMul(Fl(RSub(One, beta)), prev))))

\* faulty variant: forward[0] is left at the 0 of np.zeros_like
RECURSIVE EmaForward_zero_seed(_, _)
EmaForward_zero_seed(values, beta) ==
    IF Len(values) = 0 THEN values
    ELSE IF Len(values) = 1 THEN <<Zero>>
    ELSE LET n == Len(values)
             f == EmaForward_zero_seed(SubSeq(values, 1, n - 1), beta)
         IN  Append(f, Ema(beta, values[n], f[n - 1]))

\* forward[0] = values[0]; forward[i] = beta*values[i] + (1-beta)*forward[i-1]
RECURSIVE EmaForward(_, _)
EmaForward(values, beta) ==
    IF Len(values) <= 1 THEN values
    ELSE LET n == Len(values)
             f == EmaForward(SubSeq(values, 1, n - 1), beta)
         IN  Append(f, Ema(beta, values[n], f[n - 1]))

\* faulty variant: the forward pass is written back, the backward pass is lost
EmaBackward_forward_only(forward, beta) == forward

\* backward[-1] = forward[-1]; backward[i] = beta*forward[i] + (1-beta)*backward[i+1]
RECURSIVE EmaBackward(_, _)
EmaBackward(forward, beta) ==
    IF Len(forward) <= 1 THEN forward
    ELSE LET b == EmaBackward(Tail(forward), beta)
         IN  <<Ema(beta, forward[1], b[1])>> \o b

\* the filtered values of one key over the valid indices vis (a sequence)
SmoothKey(positions, vis, key, beta) ==
    EmaBackward(EmaForward([j \in 1..Len(vis) |-> positions[vis[j] + 1][key]], beta), beta)

\* j (1-based) with vis[j] = idx
IndexIn(vis, idx) == CHOOSE j \in 1..Len(vis) : vis[j] = idx

\* faulty variant: the filtered value j is written to record j of the list and
\* not to record valid_indices[j]
smooth_positions_zero_phase_by_rank(positions, fps, cutoff_w) ==
    IF Len(positions) < 2 \/ cutoff_w <= 0 THEN positions
    ELSE LET beta == one_pole_beta(cutoff_w, fps) IN
         IF RLe(beta, Zero) \/ RLe(One, beta) THEN positions
         ELSE LET vs == valid_indices(positions) IN
              IF Cardinality(vs) < 2 THEN positions
              ELSE LET vis == SortedSeq(vs)
                       cx == SmoothKey(positions, vis, "centerX", beta)
                       cy == SmoothKey(positions, vis, "centerY", beta)
                       wd == SmoothKey(positions, vis, "width", beta)
                       ht == SmoothKey(positions, vis, "height", beta)
                       ro == SmoothKey(positions, vis, "rotation", beta)
                   IN  [k \in 1..Len(positions) |->
                          IF k <= Len(vis)
                          THEN [positions[k] EXCEPT !.centerX = cx[k],
                                                    !.centerY = cy[k],
                                                    !.width = wd[k],
                                                    !.height = ht[k],
                                                    !.rotation = ro[k]]
                          ELSE positions[k]]

\* faulty variant: the test "beta <= 0 or beta >= 1" is missing
smooth_positions_zero_phase_no_beta_check(positions, fps, cutoff_w) ==
    IF Len(positions) < 2 \/ cutoff_w <= 0 THEN positions
    ELSE LET beta == one_pole_beta(cutoff_w, fps)
             vs == valid_indices(positions)
         IN  IF Cardinality(vs) < 2 THEN positions
             ELSE LET vis == SortedSeq(vs)
                      cx == SmoothKey(positions, vis, "centerX", beta)
                      cy == SmoothKey(positions, vis, "centerY", beta)
                      wd == SmoothKey(positions, vis, "width", beta)
                      ht == SmoothKey(positions, vis, "height", beta)
                      ro == SmoothKey(positions, vis, "rotation", beta)
                  IN  [k \in 1..Len(positions) |->
                         IF (k - 1) \in vs
                         THEN LET j == IndexIn(vis, k - 1)
                              IN  [positions[k] EXCEPT !.centerX = cx[j],
                                                       !.centerY = cy[j],
                                                       !.width = wd[j],
                                                       !.height = ht[j],
                                                       !.rotation = ro[j]]
                         ELSE positions[k]]

smooth_positions_zero_phase(positions, fps, cutoff_w) ==
    IF Len(positions) < 2 \/ cutoff_w <= 0 THEN positions
    ELSE LET beta == one_pole_beta(cutoff_w, fps) IN
         IF RLe(beta, Zero) \/ RLe(One, beta) THEN positions
         ELSE LET vs == valid_indices(positions) IN
              IF Cardinality(vs) < 2 THEN positions
              ELSE LET vis == SortedSeq(vs)
                       cx == SmoothKey(positions, vis, "centerX", beta)
                       cy == SmoothKey(positions, vis, "centerY", beta)
                       wd == SmoothKey(positions, vis, "width", beta)
                       ht == SmoothKey(positions, vis, "height", beta)
                       ro == SmoothKey(positions, vis, "rotation", beta)
                   IN  [k \in 1..Len(positions) |->
                          IF (k - 1) \in vs
                          THEN LET j == IndexIn(vis, k - 1)
                               IN  [positions[k] EXCEPT !.centerX = cx[j],
                                                        !.centerY = cy[j],
                                                        !.width = wd[j],
                                                        !.height = ht[j],
                                                        !.rotation = ro[j]]
                          ELSE positions[k]]

(***************************************************************************)
(* The detector and extract_mouth_from_landmarks                           *)
(* A detector result is NoFace or a face whose landmarks are summarised by *)
(* the quantities the code reads: mean mouth point (mx, my), the two mouth *)
(* spans (dx, dy), all in normalised image units, and the eye-line angle.  *)
(***************************************************************************)
NoFace == [face |-> FALSE, mx |-> Zero, my |-> Zero, dx |-> Zero, dy |-> Zero, rot |-> Zero]

Faces ==
    { [face |-> TRUE, mx |-> Rat(1, 2), my |-> Rat(3, 5), dx |-> Rat(1, 5),
       dy |-> Rat(1, 10), rot |-> R(0)],
      [face |-> TRUE, mx |-> Rat(2, 5), my |-> Rat(1, 2), dx |-> Zero,
       dy |-> Zero, rot |-> R(10)] }

DetectorResults == {NoFace} \cup Faces

pad_default == Rat(3, 10)

\* faulty variant: the padded spans are returned without the lower limits
\* min_width and min_height
extract_mouth_from_landmarks_no_minimum(landmarks, frame_width, frame_height, pad) ==
    [centerX |-> RMul(landmarks.mx, R(frame_width)),
     centerY |-> RMul(landmarks.my, R(frame_height)),
     width |-> RMul(RMul(landmarks.dx, R(frame_width)), RAdd(One, pad)),
     height |-> RMul(RMul(landmarks.dy, R(frame_height)), RAdd(One, pad)),
     rotation |-> landmarks.rot]

extract_mouth_from_landmarks(landmarks, frame_width, frame_height, pad) ==
    LET width0 == RMul(RMul(landmarks.dx, R(frame_width)), RAdd(One, pad))
        height0 == RMul(RMul(landmarks.dy, R(frame_height)), RAdd(One, pad))
        min_width == RMul(R(frame_width), Rat(5, 100))
        min_height == RMul(R(frame_height), Rat(3, 100))
    IN  [centerX |-> RMul(landmarks.mx, R(frame_width)),
         centerY |-> RMul(landmarks.my, R(frame_height)),
         width |-> RMax(width0, min_width),
         height |-> RMax(height0, min_height),
         rotation |-> landmarks.rot]

\* round(x, 4)
Round4(x) == Rat((2 * x.n * 10000 + x.d) \div (2 * x.d), 10000)

\* the record built for frame frame_idx before detection
DefaultPosition(frame_idx, fps, width, height) ==
    [frameIndex |-> frame_idx,
     timeSeconds |-> Round4(Rat(frame_idx, fps)),
     centerX |-> Rat(width, 2),
     centerY |-> RMul(R(height), Rat(7, 10)),
     width |-> RMul(R(width), Rat(2, 10)),
     height |-> RMul(R(height), Rat(1, 10)),
     confidence |-> Zero,
     rotation |-> Zero]

\* the record appended for frame frame_idx given the detector's answer
DetectPosition(frame_idx, fps, width, height, stride, det) ==
    LET position == DefaultPosition(frame_idx, fps, width, height) IN
    IF frame_idx % stride = 0 /\ det.face
    THEN LET mouth == extract_mouth_from_landmarks(det, width, height, pad_default)
         IN  [position EXCEPT !.centerX = mouth.centerX, !.centerY = mouth.centerY,
                              !.width = mouth.width, !.height = mouth.height,
                              !.rotation = mouth.rotation, !.confidence = One]
    ELSE position

(***************************************************************************)
(* Images.  A decoded frame is [src, shape, op = "decoded"] together with  *)
(* what OpenCV computes from its pixels: warp_ok (warp_to_norm on the      *)
(* frame's scale-1.2 quad returns; FALSE = it raises cv2.error, the same   *)
(* at every call since frame and quad are the same), and the image         *)
(* statistics find_best_reference_frame reads inside the inner mask.       *)
(***************************************************************************)
ImageStats == { [grad |-> R(0), var |-> R(0)], [grad |-> R(1), var |-> R(4)] }

\* what the pixels of a frame decide: the statistics exist only if the warp does
FrameContents ==
    {[warp_ok |-> FALSE, grad |-> Zero, var |-> Zero]} \cup
    {[warp_ok |-> TRUE, grad |-> st.grad, var |-> st.var] : st \in ImageStats}

DecodedFrame(idx, shape, content) ==
    [src |-> idx, shape |-> shape, op |-> "decoded", warp_ok |-> content.warp_ok,
     grad |-> content.grad, var |-> content.var, pos |-> <<>>, patch |-> <<>>]

sample_count_default == 20

Max(a, b) == IF a > b THEN a ELSE b

\* score = height_penalty * 0.1 + gradient_energy * 0.5 + variance * 0.01
ReferenceScore(frame, pos) ==
    RAdd(RAdd(RMul(pos.height, Rat(1, 10)), RMul(frame.grad, Rat(5, 10))),
         RMul(frame.var, Rat(1, 100)))

\* the loop "for i in range(0, total_frames, step)"; best.score = <<>> is inf
RECURSIVE ReferenceLoop(_, _, _, _, _)
ReferenceLoop(frames, positions, i, step, best) ==
    IF i >= Len(frames) THEN best.frame
    ELSE LET pos == positions[i + 1]
             frame == frames[i + 1]
             score == ReferenceScore(frame, pos)
         IN  IF RLt(pos.confidence, Rat(1, 2))
             THEN ReferenceLoop(frames, positions, i + step, step, best)
             ELSE IF ~frame.warp_ok
             THEN ReferenceLoop(frames, positions, i + step, step, best)
             ELSE IF best.score = <<>> \/ RLt(score, best.score[1])
             THEN ReferenceLoop(frames, positions, i + step, step,
                                [frame |-> i, score |-> <<score>>])
             ELSE ReferenceLoop(frames, positions, i + step, step, best)

\* faulty variant: every frame is looked at, not every step-th one
find_best_reference_frame_every_frame(frames, positions, sample_count) ==
    ReferenceLoop(frames, positions, 0, 1, [frame |-> 0, score |-> <<>>])

find_best_reference_frame(frames, positions, sample_count) ==
    LET total_frames == Len(frames)
        step == Max(1, total_frames \div sample_count)
    IN  ReferenceLoop(frames, positions, 0, step, [frame |-> 0, score |-> <<>>])

\* PlaneFitter.__init__: valid iff at least 10 ring pixels lie above 0.5
min_ring_pixels == 10
RingPixelCounts == {9, 10}
PlaneFitter(ring_pixels) == [valid |-> ring_pixels >= min_ring_pixels]

\* create_clean_patch_with_inpaint: <<>> stands for the uncaught cv2.error;
\* ring_mask is the mask by its number of pixels above 0.5
create_clean_patch_with_inpaint(frame, pos, ring_pixels) ==
    IF ~frame.warp_ok THEN <<>>
    ELSE <<[ref_src |-> frame.src, ref_pos |-> pos, ring_mask |-> ring_pixels,
            plane_fitter |-> PlaneFitter(ring_pixels)]>>

\* faulty variant: the test "if not plane_fitter.valid" is missing, the colour
\* correction runs on every patch
apply_plane_shading_no_valid_check(bundle, frame) ==
    [patch |-> bundle, shaded_for |-> frame.src]

\* apply_plane_shading: the clean patch itself when the fitter is invalid
apply_plane_shading(bundle, frame) ==
    IF ~bundle.plane_fitter.valid THEN [patch |-> bundle, shaded_for |-> NoIdx]
    ELSE [patch |-> bundle, shaded_for |-> frame.src]

\* faulty variant: no try/except around warp_to_norm, the composite goes on with
\* whatever the warp left
erase_mouth_in_frame_no_catch(frame, pos, bundle) ==
    [frame EXCEPT !.op = "erased", !.pos = <<pos>>,
                  !.patch = <<apply_plane_shading(bundle, frame)>>]

erase_mouth_in_frame(frame, pos, bundle) ==
    IF ~frame.warp_ok THEN frame
    ELSE [frame EXCEPT !.op = "erased", !.pos = <<pos>>,
                       !.patch = <<apply_plane_shading(bundle, frame)>>]

\* faulty variant: apply_plane_shading writes the corrected patch into
\* clean_patch itself, so the bundle carries the shading of the last frame
erase_mouth_in_frame_bundle_in_place(frame, pos, bundle) ==
    IF ~frame.warp_ok \/ ~bundle.plane_fitter.valid THEN bundle
    ELSE [bundle EXCEPT !.ref_src = frame.src, !.ref_pos = pos]

\* the arrays of the bundle, which erase_mouth_in_frame receives by reference,
\* after the call: cvtColor, astype, np.stack and the arithmetic all build new
\* arrays, and nothing is assigned into clean_patch, the masks or the fitter
erase_mouth_in_frame_bundle(frame, pos, bundle) == bundle

\* faulty variant: every frame is erased, whatever its confidence
Pass2Frame_always_erase(frame, pos, bundle) == erase_mouth_in_frame(frame, pos, bundle)

\* faulty variant: only records the detector itself reported (confidence 1)
\* are erased, filled records pass through
Pass2Frame_detections_only(frame, pos, bundle) ==
    IF RLe(One, pos.confidence)
    THEN erase_mouth_in_frame(frame, pos, bundle)
    ELSE frame

\* the frame pass 2 writes for one decoded frame
Pass2Frame(frame, pos, bundle) ==
    IF RLt(Zero, pos.confidence)
    THEN erase_mouth_in_frame(frame, pos, bundle)
    ELSE frame

\* the bundle after pass 2 has handled one decoded frame
Pass2Bundle(frame, pos, bundle) ==
    IF RLt(Zero, pos.confidence)
    THEN erase_mouth_in_frame_bundle(frame, pos, bundle)
    ELSE bundle

(***************************************************************************)
(* scripts/convert_npz_to_json.py: quad_to_mouth_position and              *)
(* interpolate_positions                                                   *)
(* A quad is its four corners <<x, y>> in the order top-left, top-right,   *)
(* bottom-right, bottom-left.  The quads handed to these functions have    *)
(* integer corners and sides along the axes, so that the norms and the     *)
(* angle of the code are exact and every value of a position is a multiple *)
(* of 1/4: round(x, 2) then rounds the exact value, ties to the even       *)
(* hundredth.                                                              *)
(***************************************************************************)
\* round(x, 2)
Round2(x) == Rat(FlRound(x.n * 100, x.d), 100)

\* np.linalg.norm of the vector (dx, dy), for vectors of integer length
Norm(dx, dy) == CHOOSE r \in 0..(Abs(dx) + Abs(dy)) : r * r = dx * dx + dy * dy

\* math.degrees(math.atan2(dy, dx)), for vectors along an axis
Atan2Degrees(dy, dx) ==
    IF dy = 0 THEN (IF dx >= 0 THEN R(0) ELSE R(180))
    ELSE IF dy > 0 THEN R(90) ELSE R(-90)

quad_to_mouth_position(quad, frame_index) ==
    LET center_x == Rat(quad[1][1] + quad[2][1] + quad[3][1] + quad[4][1], 4)
        center_y == Rat(quad[1][2] + quad[2][2] + quad[3][2] + quad[4][2], 4)
        top_width == Norm(quad[2][1] - quad[1][1], quad[2][2] - quad[1][2])
        bottom_width == Norm(quad[3][1] - quad[4][1], quad[3][2] - quad[4][2])
        left_height == Norm(quad[4][1] - quad[1][1], quad[4][2] - quad[1][2])
        right_height == Norm(quad[3][1] - quad[2][1], quad[3][2] - quad[2][2])
        dx == quad[2][1] - quad[1][1]
        dy == quad[2][2] - quad[1][2]
    IN  [frameIndex |-> frame_index,
         centerX |-> Round2(center_x),
         centerY |-> Round2(center_y),
         width |-> Round2(Rat(top_width + bottom_width, 2)),
         height |-> Round2(Rat(left_height + right_height, 2)),
         rotation |-> Round2(Atan2Degrees(dy, dx))]

\* the record built for j of "for j in range(1, stride)"
InterpolatedPosition(current, next_pos, j, stride) ==
    LET t == Rat(j, stride)
    IN  [frameIndex |-> current.frameIndex + j,
         centerX |-> Round2(Lerp(current.centerX, next_pos.centerX, t)),
         centerY |-> Round2(Lerp(current.centerY, next_pos.centerY, t)),
         width |-> Round2(Lerp(current.width, next_pos.width, t)),
         height |-> Round2(Lerp(current.height, next_pos.height, t)),
         rotation |-> Round2(Lerp(current.rotation, next_pos.rotation, t))]

\* "for i in range(len(positions) - 1)" from i on: the record i, then the
\* stride - 1 records between i and i + 1
RECURSIVE InterpolatePairs(_, _, _, _)
InterpolatePairs(positions, stride, i, result) ==
    IF i >= Len(positions) - 1 THEN result
    ELSE InterpolatePairs(positions, stride, i + 1,
             (result \o <<positions[i + 1]>>) \o
             [j \in 1..(stride - 1) |->
                 InterpolatedPosition(positions[i + 1], positions[i + 2], j, stride)])

\* faulty variant: the last record is not appended after the loop
interpolate_positions_without_last(positions, stride) ==
    IF stride <= 1 \/ Len(positions) < 2 THEN positions
    ELSE InterpolatePairs(positions, stride, 0, <<>>)

interpolate_positions(positions, stride) ==
    IF stride <= 1 \/ Len(positions) < 2 THEN positions
    ELSE Append(InterpolatePairs(positions, stride, 0, <<>>),
                positions[Len(positions)])

(***************************************************************************)
(* State                                                                   *)
(***************************************************************************)
VARIABLES
    pc,             \* position in the running script
    script,         \* the script that runs
    stride,         \* argument stride; det_stride in convert_npz_to_json
    smooth_cutoff,  \* argument smooth_cutoff (as w, see one_pole_beta)
    fps,            \* cap.get(CAP_PROP_FPS)
    size,           \* <<height, width>> of the video's frames
    frame_idx,      \* frames decoded so far
    frames_cache,   \* decoded frames kept for pass 2
    positions,      \* the position list
    ref_frame_idx,  \* result of find_best_reference_frame
    bundle,         \* <<>> or <<clean patch bundle>>
    i,              \* loop index of pass 2
    out_writer,     \* frames written to the output video
    output_json,    \* <<>> or <<the emitted result>>
    error,          \* "none" or the exception that ended the run
    arg,            \* pure-function harness: the input list; the npz file
    sample_count,   \* pure-function harness: argument of find_best_reference_frame
    given,          \* the list the last call of a list function was made with
    ret,            \* pure-function harness: the returned list
    fn              \* pure-function harness: the function applied

vars == <<pc, script, stride, smooth_cutoff, fps, size, frame_idx, frames_cache,
          positions, ref_frame_idx, bundle, i, out_writer, output_json, error,
          arg, sample_count, given, ret, fn>>

harness == <<arg, sample_count, given, ret, fn>>
args == <<script, stride, smooth_cutoff>>

Scripts == {"process_video", "detect_mouth_positions"}
Strides == {1, 2}
Cutoffs == {0, 1}
FpsValues == {0, 1}
FrameSizes == {<<10, 20>>}

Init ==
    /\ pc = "open"
    /\ script \in Scripts
    /\ stride \in Strides
    /\ smooth_cutoff \in Cutoffs
    /\ fps = 0
    /\ size = <<0, 0>>
    /\ frame_idx = 0
    /\ frames_cache = <<>>
    /\ positions = <<>>
    /\ ref_frame_idx = NoIdx
    /\ bundle = <<>>
    /\ i = 0
    /\ out_writer = <<>>
    /\ output_json = <<>>
    /\ error = "none"
    /\ arg = <<>>
    /\ sample_count = sample_count_default
    /\ given = <<>>
    /\ ret = <<>>
    /\ fn = "none"

Raise(exc) == pc' = "aborted" /\ error' = exc

(***************************************************************************)
(* process_video                                                           *)
(***************************************************************************)
\* cap = cv2.VideoCapture(video_path); if not cap.isOpened(): raise ValueError
process_video_open ==
    /\ pc = "open" /\ script = "process_video"
    /\ \E opened \in BOOLEAN :
         IF ~opened
         THEN /\ Raise("ValueError")
              /\ UNCHANGED <<fps, size>>
         ELSE /\ pc' = "pass1"
              /\ fps' \in FpsValues
              /\ size' \in FrameSizes
              /\ error' = error
    /\ UNCHANGED <<args, frame_idx, frames_cache, positions, ref_frame_idx, bundle,
                   i, out_writer, output_json, harness>>

\* one iteration of the pass-1 loop in which cap.read() returns a frame
process_video_read ==
    /\ pc = "pass1" /\ script = "process_video"
    /\ frame_idx < MaxFrames
    /\ \E content \in FrameContents, det \in DetectorResults :
         /\ frame_idx % stride # 0 => det = NoFace
         /\ frames_cache' = Append(frames_cache,
                                   DecodedFrame(frame_idx, size, content))
         /\ IF fps = 0
            THEN /\ Raise("ZeroDivisionError")     \* frame_idx / fps
                 /\ UNCHANGED <<positions, frame_idx>>
            ELSE /\ positions' = Append(positions,
                       DetectPosition(frame_idx, fps, size[2], size[1], stride, det))
                 /\ frame_idx' = frame_idx + 1
                 /\ UNCHANGED <<pc, error>>
    /\ UNCHANGED <<args, fps, size, ref_frame_idx, bundle, i, out_writer,
                   output_json, harness>>

\* cap.read() fails: break, then the detection-rate report
process_video_end_of_stream ==
    /\ pc = "pass1" /\ script = "process_video"
    /\ IF Len(positions) = 0
       THEN Raise("ZeroDivisionError")             \* 100*valid_count/len(positions)
       ELSE pc' = "interpolate" /\ error' = error
    /\ UNCHANGED <<args, fps, size, frame_idx, frames_cache, positions,
                   ref_frame_idx, bundle, i, out_writer, output_json, harness>>

process_video_interpolate ==
    /\ pc = "interpolate" /\ script = "process_video"
    /\ positions' = interpolate_invalid_positions(positions)
    /\ pc' = "smooth"
    /\ UNCHANGED <<args, fps, size, frame_idx, frames_cache, ref_frame_idx, bundle,
                   i, out_writer, output_json, error, harness>>

process_video_smooth ==
    /\ pc = "smooth" /\ script = "process_video"
    /\ positions' = IF smooth_cutoff > 0
                    THEN smooth_positions_zero_phase(positions, fps, smooth_cutoff)
                    ELSE positions
    /\ pc' = "reference"
    /\ UNCHANGED <<args, fps, size, frame_idx, frames_cache, ref_frame_idx, bundle,
                   i, out_writer, output_json, error, harness>>

process_video_reference ==
    /\ pc = "reference" /\ script = "process_video"
    /\ ref_frame_idx' = find_best_reference_frame(frames_cache, positions,
                                                  sample_count_default)
    /\ pc' = "patch"
    /\ UNCHANGED <<args, fps, size, frame_idx, frames_cache, positions, bundle,
                   i, out_writer, output_json, error, harness>>

\* create_clean_patch_with_inpaint on the reference frame, then the writer is opened
process_video_patch ==
    /\ pc = "patch" /\ script = "process_video"
    /\ \E ring_pixels \in RingPixelCounts :
         LET made == create_clean_patch_with_inpaint(
                         frames_cache[ref_frame_idx + 1],
                         positions[ref_frame_idx + 1], ring_pixels)
         IN  IF made = <<>>
             THEN Raise("cv2.error") /\ UNCHANGED bundle
             ELSE bundle' = made /\ pc' = "pass2" /\ error' = error
    /\ UNCHANGED <<args, fps, size, frame_idx, frames_cache, positions,
                   ref_frame_idx, i, out_writer, output_json, harness>>

\* one iteration of "for i, frame in enumerate(frames_cache)"
process_video_erase ==
    /\ pc = "pass2" /\ script = "process_video"
    /\ i < Len(frames_cache)
    /\ LET frame == frames_cache[i + 1]
           pos == positions[i + 1]
           result_frame == Pass2Frame(frame, pos, bundle[1])
       IN  /\ out_writer' = Append(out_writer, result_frame)
           /\ bundle' = <<Pass2Bundle(frame, pos, bundle[1])>>
    /\ i' = i + 1
    /\ UNCHANGED <<args, pc, fps, size, frame_idx, frames_cache, positions,
                   ref_frame_idx, output_json, error, harness>>

\* the loop is over: release the writer, build and dump the result
process_video_finish ==
    /\ pc = "pass2" /\ script = "process_video"
    /\ i >= Len(frames_cache)
    /\ output_json' = <<[totalFrames |-> Len(positions), positions |-> positions]>>
    /\ pc' = "done"
    /\ UNCHANGED <<args, fps, size, frame_idx, frames_cache, positions,
                   ref_frame_idx, bundle, i, out_writer, error, harness>>

(***************************************************************************)
(* detect_mouth_positions                                                  *)
(***************************************************************************)
detect_open ==
    /\ pc = "open" /\ script = "detect_mouth_positions"
    /\ \E opened \in BOOLEAN :
         IF ~opened
         THEN /\ Raise("ValueError")
              /\ UNCHANGED <<fps, size>>
         ELSE /\ pc' = "pass1"
              /\ fps' \in FpsValues
              /\ size' \in FrameSizes
              /\ error' = error
    /\ UNCHANGED <<args, frame_idx, frames_cache, positions, ref_frame_idx, bundle,
                   i, out_writer, output_json, harness>>

\* one iteration of the loop in which cap.read() returns a frame
detect_read ==
    /\ pc = "pass1" /\ script = "detect_mouth_positions"
    /\ frame_idx < MaxFrames
    /\ \E det \in DetectorResults :
         /\ frame_idx % stride # 0 => det = NoFace
         /\ IF fps = 0
            THEN /\ Raise("ZeroDivisionError")     \* frame_idx / fps
                 /\ UNCHANGED <<positions, frame_idx>>
            ELSE /\ positions' = Append(positions,
                       DetectPosition(frame_idx, fps, size[2], size[1], stride, det))
                 /\ frame_idx' = frame_idx + 1
                 /\ UNCHANGED <<pc, error>>
    /\ UNCHANGED <<args, fps, size, frames_cache, ref_frame_idx, bundle, i,
                   out_writer, output_json, harness>>

\* the six fields kept in output_positions
OutputPosition(pos) ==
    [frameIndex |-> pos.frameIndex, centerX |-> pos.centerX, centerY |-> pos.centerY,
     width |-> pos.width, height |-> pos.height, rotation |-> pos.rotation]

\* cap.read() fails: break, the detection-rate report, interpolation, smoothing
\* and the result
detect_end_of_stream ==
    /\ pc = "pass1" /\ script = "detect_mouth_positions"
    /\ IF Len(positions) = 0
       THEN /\ Raise("ZeroDivisionError")          \* 100*valid_count/len(positions)
            /\ UNCHANGED <<positions, output_json>>
       ELSE LET interpolated == interpolate_invalid_positions(positions)
                smoothed == IF smooth_cutoff > 0
                            THEN smooth_positions_zero_phase(interpolated, fps,
                                                             smooth_cutoff)
                            ELSE interpolated
            IN  /\ positions' = smoothed
                /\ output_json' =
                     <<[totalFrames |-> Len(smoothed),
                        positions |-> [k \in 1..Len(smoothed) |->
                                          OutputPosition(smoothed[k])]]>>
                /\ pc' = "done"
                /\ error' = error
    /\ UNCHANGED <<args, fps, size, frame_idx, frames_cache, ref_frame_idx, bundle,
                   i, out_writer, harness>>

Next ==
    \/ process_video_open
    \/ process_video_read
    \/ process_video_end_of_stream
    \/ process_video_interpolate
    \/ process_video_smooth
    \/ process_video_reference
    \/ process_video_patch
    \/ process_video_erase
    \/ process_video_finish
    \/ detect_open
    \/ detect_read
    \/ detect_end_of_stream

Spec == Init /\ [][Next]_vars

(***************************************************************************)
(* The pure functions on their own: every list of at most MaxLen records   *)
(* drawn from Pool is handed to interpolate_invalid_positions, to          *)
(* smooth_positions_zero_phase, or to one after the other.                 *)
(***************************************************************************)
Geometry(cx, cy, w, h, rot, conf) ==
    [frameIndex |-> 0, timeSeconds |-> Zero, centerX |-> cx, centerY |-> cy,
     width |-> w, height |-> h, rotation |-> rot, confidence |-> conf]

Pool ==
    { Geometry(R(10), R(6), R(4), R(2), R(0), One),
      Geometry(R(16), R(9), R(7), R(5), R(12), One),
      Geometry(R(13), R(9), R(1), R(8), R(-6), Rat(1, 2)),
      Geometry(R(4), R(11), R(3), R(6), R(9), Zero) }

PureInputs ==
    UNION { { [k \in 1..n |-> [s[k] EXCEPT !.frameIndex = k - 1]] :
                s \in [1..n -> Pool] } : n \in 0..MaxLen }

\* step signals: StepLow in the first k records, StepHigh in the others, every
\* field stepping by several units of rounding, k at least 2 records from the
\* start and 3 from the end
StepLow == Geometry(R(4), R(2), R(1), R(1), R(12), One)
StepHigh == Geometry(R(16), R(8), R(8), R(4), R(0), One)

StepInput(n, k) ==
    [j \in 1..n |-> [(IF j <= k THEN StepLow ELSE StepHigh) EXCEPT !.frameIndex = j - 1]]

StepInputs ==
    {StepInput(q[1], q[2]) :
        q \in {pr \in (5..StepLen) \X (2..StepLen) : pr[2] + 3 <= pr[1]}}

PureFps == {0, 1, 2}
PureCutoffs == {-1, 0, 1, 2, 32}

\* <<fps, cutoff>>: each way of skipping the filter on its own, and the filter
\* with three coefficients (1/2 and the floats nearest 1/3 and 2/3)
PureParams ==
    {pr \in PureFps \X PureCutoffs :
        (pr[1] = 1 /\ pr[2] # 1) \/ (pr[2] = 1 /\ pr[1] # 1) \/ pr = <<1, 1>>}

InitPure ==
    /\ pc = "pure"
    /\ script = "pure"
    /\ stride = 1
    /\ smooth_cutoff = 0
    /\ fps = 0
    /\ size = <<0, 0>>
    /\ frame_idx = 0
    /\ frames_cache = <<>>
    /\ positions = <<>>
    /\ ref_frame_idx = NoIdx
    /\ bundle = <<>>
    /\ i = 0
    /\ out_writer = <<>>
    /\ output_json = <<>>
    /\ error = "none"
    /\ arg \in PureInputs \cup StepInputs
    /\ sample_count = sample_count_default
    /\ given = <<>>
    /\ ret = <<>>
    /\ fn = "none"

frozen == <<pc, script, stride, frame_idx, frames_cache, positions, ref_frame_idx,
            bundle, i, out_writer, output_json, error, sample_count>>

call_interpolate ==
    /\ pc = "pure" /\ fn = "none"
    /\ given' = arg
    /\ ret' = interpolate_invalid_positions(arg)
    /\ fn' = "interpolate"
    /\ UNCHANGED <<frozen, arg, fps, smooth_cutoff, size>>

call_smooth ==
    /\ pc = "pure" /\ fn = "none"
    /\ \E pr \in PureParams :
         /\ fps' = pr[1]
         /\ smooth_cutoff' = pr[2]
         /\ ret' = smooth_positions_zero_phase(arg, pr[1], pr[2])
    /\ given' = arg
    /\ fn' = "smooth"
    /\ UNCHANGED <<frozen, arg, size>>

\* positions = interpolate_invalid_positions(positions), then
\* positions = smooth_positions_zero_phase(positions, fps, smooth_cutoff)
call_smooth_after_interpolate ==
    /\ pc = "pure" /\ fn = "interpolate"
    /\ \E pr \in PureParams :
         /\ fps' = pr[1]
         /\ smooth_cutoff' = pr[2]
         /\ ret' = smooth_positions_zero_phase(ret, pr[1], pr[2])
    /\ given' = ret
    /\ fn' = "interpolate_smooth"
    /\ UNCHANGED <<frozen, arg, size>>

NextPure ==
    \/ call_interpolate
    \/ call_smooth
    \/ call_smooth_after_interpolate

SpecPure == InitPure /\ [][NextPure]_vars

(***************************************************************************)
(* find_best_reference_frame on its own: every clip of at most MaxLen      *)
(* frames made of the samples below, and clips of RefLongLen frames, with  *)
(* the default sample_count and with a small one.                          *)
(***************************************************************************)
\* a frame together with its position record, as the function reads them
RefSample(conf, height, content) ==
    [pos |-> Geometry(R(10), R(6), R(4), height, R(0), conf), content |-> content]

WarpFails == [warp_ok |-> FALSE, grad |-> Zero, var |-> Zero]
Flat == [warp_ok |-> TRUE, grad |-> Zero, var |-> Zero]
Textured == [warp_ok |-> TRUE, grad |-> R(1), var |-> R(4)]

RefGood == RefSample(One, R(2), Flat)
RefBad == RefSample(Rat(1, 2), R(2), Textured)
RefSamples ==
    { RefGood,                                  \* score 0.2
      RefSample(Rat(1, 2), R(2), Flat),         \* score 0.2, interpolated record
      RefBad,                                   \* score 0.74
      RefSample(Rat(3, 10), R(1), Flat),        \* confidence below 0.5
      RefSample(One, R(1), WarpFails) }         \* warp_to_norm raises cv2.error

\* the clip whose frame k - 1 is samples[k]
RefClip(samples) ==
    [positions |-> [k \in 1..Len(samples) |->
                       [samples[k].pos EXCEPT !.frameIndex = k - 1]],
     frames |-> [k \in 1..Len(samples) |->
                    DecodedFrame(k - 1, <<10, 20>>, samples[k].content)]]

\* RefLongLen frames: first in frame 0, RefGood in frame a, RefBad elsewhere
LongClip(first, a) ==
    RefClip([k \in 1..RefLongLen |->
                IF k = 1 THEN first ELSE IF k = a + 1 THEN RefGood ELSE RefBad])

RefInputs ==
    UNION { {RefClip(samples) : samples \in [1..n -> RefSamples]} : n \in 0..MaxLen }
    \cup {LongClip(first, a) : first \in RefSamples, a \in 1..4}

RefSampleCounts == {2, sample_count_default}

InitReference ==
    /\ pc = "pure"
    /\ script = "pure"
    /\ stride = 1
    /\ smooth_cutoff = 0
    /\ fps = 0
    /\ size = <<0, 0>>
    /\ frame_idx = 0
    /\ \E clip \in RefInputs :
          /\ frames_cache = clip.frames
          /\ positions = clip.positions
    /\ ref_frame_idx = NoIdx
    /\ bundle = <<>>
    /\ i = 0
    /\ out_writer = <<>>
    /\ output_json = <<>>
    /\ error = "none"
    /\ arg = <<>>
    /\ sample_count = sample_count_default
    /\ given = <<>>
    /\ ret = <<>>
    /\ fn = "none"

call_find_best_reference_frame ==
    /\ pc = "pure" /\ fn = "none"
    /\ \E sc \in RefSampleCounts :
         /\ sample_count' = sc
         /\ ref_frame_idx' = find_best_reference_frame(frames_cache, positions, sc)
    /\ fn' = "reference"
    /\ UNCHANGED <<pc, script, stride, smooth_cutoff, fps, size, frame_idx,
                   frames_cache, positions, bundle, i, out_writer, output_json,
                   error, arg, given, ret>>

NextReference == call_find_best_reference_frame

SpecReference == InitReference /\ [][NextReference]_vars

(***************************************************************************)
(* convert_npz_to_json on the npz files of at most MaxQuads quads drawn    *)
(* from QuadPool                                                           *)
(***************************************************************************)
MaxQuads == 3       \* quads in an npz file

\* the quads an npz file is made of
QuadPool ==
    { <<<<10, 20>>, <<30, 20>>, <<30, 30>>, <<10, 30>>>>,
      <<<<13, 21>>, <<30, 21>>, <<30, 32>>, <<13, 32>>>>,
      <<<<20, 10>>, <<20, 30>>, <<12, 30>>, <<12, 10>>>> }

\* data.get("det_stride", 1): <<>> is a file without the field
DetStrides == {<<>>, <<0>>, <<1>>, <<2>>, <<3>>}

\* an npz file: its quads, its det_stride, and whether quad, fps, w and h
\* are all there
NpzFiles ==
    [quad : UNION {[1..n -> QuadPool] : n \in 0..MaxQuads},
     det_stride : DetStrides,
     complete : BOOLEAN,
     fps : {30}, w : {64}, h : {48}]

InitConvert ==
    /\ pc = "convert"
    /\ script = "convert_npz_to_json"
    /\ stride = 1
    /\ smooth_cutoff = 0
    /\ fps = 0
    /\ size = <<0, 0>>
    /\ frame_idx = 0
    /\ frames_cache = <<>>
    /\ positions = <<>>
    /\ ref_frame_idx = NoIdx
    /\ bundle = <<>>
    /\ i = 0
    /\ out_writer = <<>>
    /\ output_json = <<>>
    /\ error = "none"
    /\ arg \in NpzFiles
    /\ sample_count = sample_count_default
    /\ given = <<>>
    /\ ret = <<>>
    /\ fn = "none"

\* load_npz, the test of the required fields, and the loop over the quads
convert_quads ==
    /\ pc = "convert" /\ script = "convert_npz_to_json"
    /\ IF ~arg.complete
       THEN /\ Raise("ValueError")
            /\ UNCHANGED <<fps, size, stride, positions>>
       ELSE LET det_stride == IF arg.det_stride = <<>> THEN 1 ELSE arg.det_stride[1]
            IN  /\ fps' = arg.fps
                /\ size' = <<arg.h, arg.w>>
                /\ stride' = det_stride
                /\ positions' = [k \in 1..Len(arg.quad) |->
                       quad_to_mouth_position(arg.quad[k], (k - 1) * det_stride)]
                /\ pc' = "interpolate_positions"
                /\ error' = error
    /\ UNCHANGED <<script, smooth_cutoff, frame_idx, frames_cache, ref_frame_idx,
                   bundle, i, out_writer, output_json, harness>>

\* "if det_stride > 1: positions = interpolate_positions(positions, det_stride)";
\* given keeps the list as the loop over the quads built it
convert_interpolate ==
    /\ pc = "interpolate_positions" /\ script = "convert_npz_to_json"
    /\ given' = positions
    /\ positions' = IF stride > 1 THEN interpolate_positions(positions, stride)
                    ELSE positions
    /\ pc' = "result"
    /\ UNCHANGED <<args, fps, size, frame_idx, frames_cache, ref_frame_idx, bundle,
                   i, out_writer, output_json, error, arg, sample_count, ret, fn>>

\* the result is built and main dumps it
convert_result ==
    /\ pc = "result" /\ script = "convert_npz_to_json"
    /\ output_json' = <<[videoWidth |-> size[2], videoHeight |-> size[1],
                         frameRate |-> fps, totalFrames |-> Len(positions),
                         positions |-> positions]>>
    /\ pc' = "done"
    /\ UNCHANGED <<args, fps, size, frame_idx, frames_cache, positions,
                   ref_frame_idx, bundle, i, out_writer, error, harness>>

NextConvert ==
    \/ convert_quads
    \/ convert_interpolate
    \/ convert_result

SpecConvert == InitConvert /\ [][NextConvert]_vars
(***************************************************************************)
(* Properties                                                              *)
(***************************************************************************)
IsValid(rec) == rec.confidence.n > 0
Ended == pc \in {"done", "aborted"}

\* C1: in pass 2 of process_video every frame whose position record has
\* confidence 0 after interpolation and smoothing is written as decoded:
\* erase_mouth_in_frame is not applied to it and the written frame is the
\* decoded frame itself.
C1_ConfidenceZeroPassthrough ==
    (script = "process_video" /\ pc \in {"pass2", "done"}) =>
        \A k \in 1..Len(out_writer) :
            positions[k].confidence = Zero => out_writer[k] = frames_cache[k]

\* a single-frame clip, no detection, a frame the eraser could have changed
C1_Witness ==
    /\ script = "process_video" /\ pc = "done"
    /\ Len(frames_cache) = 1
    /\ positions[1].confidence = Zero
    /\ frames_cache[1].warp_ok
    /\ out_writer = frames_cache

\* C2: a run of process_video over a video from which N >= 1 frames are
\* decoded ends with exactly N frames written, frame k coming from decoded
\* frame k and having its dimensions.
C2_OneOutputPerFrame ==
    (script = "process_video" /\ Ended /\ fps > 0 /\ Len(frames_cache) >= 1) =>
        /\ Len(out_writer) = Len(frames_cache)
        /\ \A k \in 1..Len(out_writer) :
              /\ out_writer[k].src = frames_cache[k].src
              /\ out_writer[k].shape = frames_cache[k].shape

\* C3: once the video is open (and delivers at least one frame at a positive
\* frame rate) process_video never aborts: no detector result and no failing
\* warp, that of the reference frame included, ends the run.
C3_NoRecoverableConditionHalts ==
    (script = "process_video" /\ fps > 0 /\ Len(frames_cache) >= 1) =>
        pc # "aborted"

\* C4: a frame whose warp fails inside erase_mouth_in_frame is written as
\* decoded, the run goes on without error, every other frame with
\* confidence > 0 is erased with its own position record, and all of them
\* with the one clean patch bundle, which is the bundle still held.
C4_DegenerateFrameFallsBack ==
    (script = "process_video" /\ pc \in {"pass2", "done"}) =>
        /\ error = "none"
        /\ \A k \in 1..Len(out_writer) :
              IsValid(positions[k]) =>
                 IF frames_cache[k].warp_ok
                 THEN /\ out_writer[k].op = "erased"
                      /\ out_writer[k].src = frames_cache[k].src
                      /\ out_writer[k].pos = <<positions[k]>>
                      /\ out_writer[k].patch[1].patch = bundle[1]
                 ELSE out_writer[k] = frames_cache[k]

\* a failing frame followed by a frame that is erased, in a finished run
C4_Witness ==
    /\ script = "process_video" /\ pc = "done"
    /\ \E k \in 1..Len(out_writer) :
          /\ IsValid(positions[k]) /\ ~frames_cache[k].warp_ok
          /\ out_writer[k] = frames_cache[k]
          /\ \E j \in (k + 1)..Len(out_writer) : out_writer[j].op = "erased"

\* C5: the only abort is the one of a video that cannot be opened, and it
\* happens before anything is decoded, detected or written.
C5_OnlyOpenFailureIsFatal ==
    pc = "aborted" =>
        /\ error = "ValueError"
        /\ frame_idx = 0 /\ frames_cache = <<>> /\ positions = <<>>
        /\ out_writer = <<>> /\ output_json = <<>>

\* C6: with the video open at a positive frame rate, a read that fails after
\* k frames (k = 0 included) ends the stream and not the run: no division by
\* zero is raised.
C6_FailedReadEndsCleanly ==
    fps > 0 => error # "ZeroDivisionError"

\* C14: the clean patch bundle is computed once, by the step that follows
\* pass 1 and precedes the first erased frame, and no later step changes it
\* (erase_mouth_in_frame and apply_plane_shading only read it); so every
\* written frame k is what pass 2 makes of decoded frame k, its position
\* record and that one bundle, whichever frames were erased before it.
C14_BundleComputedOnceThenReadOnly ==
    [][/\ bundle' # bundle =>
            /\ pc = "patch" /\ pc' = "pass2"
            /\ bundle = <<>> /\ out_writer = <<>> /\ i = 0
            /\ Len(positions) = Len(frames_cache)
       /\ out_writer' # <<>> =>
            \A k \in 1..Len(out_writer') :
                out_writer'[k] = Pass2Frame(frames_cache'[k], positions'[k], bundle'[1])
      ]_vars

\* a finished run in which two frames were erased and shaded with the bundle
\* made from the first of them
C14_Witness ==
    /\ script = "process_video" /\ pc = "done"
    /\ bundle # <<>> /\ bundle[1].plane_fitter.valid /\ bundle[1].ref_src = 0
    /\ \E j, k \in 1..Len(out_writer) :
          /\ j < k
          /\ out_writer[j].op = "erased" /\ out_writer[k].op = "erased"
          /\ out_writer[j].patch[1] = [patch |-> bundle[1], shaded_for |-> j - 1]
          /\ out_writer[k].patch[1] = [patch |-> bundle[1], shaded_for |-> k - 1]

\* C16: the position stream either script emits is a list with one record
\* per decoded frame, in frame order, each with exactly the fields
\* frameIndex, centerX, centerY, width, height and rotation: no confidence
\* (and nothing else) is left in an emitted record.
C16_EmittedRecordsHaveSixFields ==
    output_json # <<>> =>
        LET emitted == output_json[1].positions IN
        /\ Len(emitted) = frame_idx
        /\ \A k \in 1..Len(emitted) :
              /\ DOMAIN emitted[k] =
                     {"frameIndex", "centerX", "centerY", "width", "height", "rotation"}
              /\ emitted[k].frameIndex = k - 1

\* C20: with a frame of positive width and height, every position record
\* with confidence > 0 has width > 0 and height > 0, in the list as detection
\* builds it, as interpolation returns it and as smoothing returns it.
C20_ValidRecordsHavePositiveSize ==
    (size[1] > 0 /\ size[2] > 0) =>
        \A k \in 1..Len(positions) :
            IsValid(positions[k]) =>
                /\ RLt(Zero, positions[k].width)
                /\ RLt(Zero, positions[k].height)

\* after smoothing ran: a detection, a record interpolation filled, and a
\* detection of a closed mouth (zero spans, sized by the lower limits), all
\* three with positive width and height, the sizes still different
C20_Witness ==
    /\ pc = "reference" /\ smooth_cutoff > 0 /\ fps > 0
    /\ size[1] > 0 /\ size[2] > 0
    /\ Len(positions) = 3
    /\ positions[1].confidence = One
    /\ positions[2].confidence = ConfInterpolated
    /\ positions[3].confidence = One
    /\ RLt(positions[3].width, positions[2].width)
    /\ RLt(positions[2].width, positions[1].width)
    /\ RLt(positions[3].width, RMul(R(size[2]), Rat(2, 10)))
    /\ \A k \in 1..3 : RLt(Zero, positions[k].width) /\ RLt(Zero, positions[k].height)

\* C21: when the ring mask has fewer than 10 pixels above 0.5 the PlaneFitter
\* is invalid and shading correction does nothing and raises nothing: pass 2
\* writes a frame at every step, and every erased frame carries the clean
\* patch as create_clean_patch_with_inpaint returned it, not a patch shaded
\* for that frame.
C21_TooFewRingPixelsDisableShading ==
    (bundle # <<>> /\ bundle[1].ring_mask < 10) =>
        /\ ~bundle[1].plane_fitter.valid
        /\ error = "none"
        /\ Len(out_writer) = i
        /\ pc = "done" => i = Len(frames_cache)
        /\ \A k \in 1..Len(out_writer) :
              (IsValid(positions[k]) /\ frames_cache[k].warp_ok) =>
                  /\ out_writer[k].op = "erased"
                  /\ out_writer[k].patch = <<[patch |-> bundle[1], shaded_for |-> NoIdx]>>

\* a finished run with 9 ring pixels in which two frames were erased
C21_Witness ==
    /\ script = "process_video" /\ pc = "done"
    /\ bundle # <<>> /\ bundle[1].ring_mask = 9
    /\ \E j, k \in 1..Len(out_writer) :
          /\ j < k
          /\ out_writer[j].op = "erased" /\ out_writer[k].op = "erased"
          /\ out_writer[j].patch = out_writer[k].patch

\* pass 2 so far, given the list as interpolation and smoothing left it: with
\* no record above 0 every frame was written as decoded; otherwise every
\* record is above 0 and every frame went to erase_mouth_in_frame, which
\* erased it with its own record unless its warp failed
Pass2AllOrNothing ==
    (script = "process_video" /\ pc \in {"pass2", "done"}) =>
        IF valid_indices(positions) = {}
        THEN \A k \in 1..Len(out_writer) : out_writer[k] = frames_cache[k]
        ELSE /\ \A k \in 1..Len(positions) : IsValid(positions[k])
             /\ \A k \in 1..Len(out_writer) :
                   IF frames_cache[k].warp_ok
                   THEN /\ out_writer[k].op = "erased"
                        /\ out_writer[k].pos = <<positions[k]>>
                   ELSE out_writer[k] = frames_cache[k]

\* C22: the interpolation step of process_video turns a list with at least
\* one record of confidence > 0 into a list in which every record has
\* confidence > 0 (its own if it had one, else 0.5 or 0.3) and leaves a list
\* without any as it is; smoothing keeps every confidence; hence pass 2
\* passes every frame through when no detection succeeded and no frame
\* otherwise, frames skipped because of the stride included.
C22_InterpolationLeavesNoGapAndPass2IsAllOrNothing ==
    [][/\ (pc = "interpolate" /\ pc' = "smooth") =>
            IF valid_indices(positions) = {} THEN positions' = positions
            ELSE /\ Len(positions') = Len(positions)
                 /\ \A k \in 1..Len(positions) :
                       /\ RLt(Zero, positions'[k].confidence)
                       /\ IF IsValid(positions[k])
                          THEN positions'[k].confidence = positions[k].confidence
                          ELSE positions'[k].confidence \in {Rat(1, 2), Rat(3, 10)}
       /\ (pc = "smooth" /\ pc' = "reference") =>
            /\ Len(positions') = Len(positions)
            /\ \A k \in 1..Len(positions) :
                  positions'[k].confidence = positions[k].confidence
       /\ Pass2AllOrNothing'
      ]_vars

\* a finished run at stride 2 over three frames: the frame the detector
\* skipped lies between two detections, carries confidence 1/2 and was erased
C22_Witness ==
    /\ script = "process_video" /\ pc = "done" /\ stride = 2
    /\ Len(out_writer) = 3
    /\ positions[1].confidence = One /\ positions[3].confidence = One
    /\ positions[2].confidence = Rat(1, 2)
    /\ \A k \in 1..3 : out_writer[k].op = "erased"

\* C24: in process_video the position list and the frame cache stay aligned:
\* between the iterations of pass 1, after interpolation and after smoothing
\* the two have one length, record k is the record of frame k and frame k is
\* decoded frame k; so every frame pass 2 erased was erased with the record
\* of its own frame.
C24_PositionsAlignedWithFrames ==
    (script = "process_video" /\
     pc \in {"pass1", "interpolate", "smooth", "reference", "patch", "pass2", "done"}) =>
        /\ Len(positions) = Len(frames_cache)
        /\ \A k \in 1..Len(positions) :
              /\ positions[k].frameIndex = k - 1
              /\ frames_cache[k].src = k - 1
        /\ \A k \in 1..Len(out_writer) :
              out_writer[k].op = "erased" =>
                  /\ out_writer[k].src = k - 1
                  /\ Len(out_writer[k].pos) = 1
                  /\ out_writer[k].pos[1].frameIndex = k - 1

\* a finished run at stride 2 with smoothing: frame 1, which the detector
\* skipped, took its position from frame 0 and was erased with a record that
\* carries its own frame index
C24_Witness ==
    /\ script = "process_video" /\ pc = "done" /\ stride = 2 /\ smooth_cutoff > 0
    /\ Len(frames_cache) = 2 /\ Len(positions) = 2
    /\ positions[1].confidence = One /\ positions[2].confidence = Rat(3, 10)
    /\ out_writer[2].op = "erased"
    /\ out_writer[2].pos = <<positions[2]>>
    /\ positions[2].frameIndex = 1

(***************************************************************************)
(* Properties of the pure functions (under SpecPure)                       *)
(***************************************************************************)
ValidBelow(list, idx) == {v \in 0..(idx - 1) : IsValid(list[v + 1])}
ValidAbove(list, idx) == {v \in (idx + 1)..(Len(list) - 1) : IsValid(list[v + 1])}
MaxOf(S) == CHOOSE x \in S : \A y \in S : y <= x
MinOf(S) == CHOOSE x \in S : \A y \in S : x <= y
SameGeometry(r1, r2) == \A key \in keys : r1[key] = r2[key]
ConfPattern(list) == [k \in 1..Len(list) |-> list[k].confidence]

\* C7: interpolate_invalid_positions returns a list of the same length in
\* which every record with confidence > 0 equals the input record, field by
\* field.
C7_ValidRecordsUntouched ==
    fn = "interpolate" =>
        /\ Len(ret) = Len(arg)
        /\ \A k \in 1..Len(arg) : IsValid(arg[k]) => ret[k] = arg[k]

\* a valid record between two valid records, beside a record that was filled
C7_Witness ==
    /\ fn = "interpolate"
    /\ \E k \in 2..(Len(arg) - 1) :
          IsValid(arg[k - 1]) /\ IsValid(arg[k]) /\ IsValid(arg[k + 1])
    /\ \E j \in 1..Len(arg) : ret[j] # arg[j]

\* C8: a record i with confidence <= 0 and a valid record on both sides gets,
\* in each of the five geometry fields, v[p] + ((i-p)/(n-p)) * (v[n] - v[p])
\* with p the largest valid index below i and n the smallest valid index
\* above i, and confidence 0.5.
C8_LinearInterpolation ==
    fn = "interpolate" =>
        \A idx \in 0..(Len(arg) - 1) :
            (~IsValid(arg[idx + 1]) /\ ValidBelow(arg, idx) # {}
                                    /\ ValidAbove(arg, idx) # {}) =>
                LET p == MaxOf(ValidBelow(arg, idx))
                    n == MinOf(ValidAbove(arg, idx))
                    t == Rat(idx - p, n - p)
                IN  /\ \A key \in keys :
                          ret[idx + 1][key] =
                              RAdd(arg[p + 1][key],
                                   RMul(t, RSub(arg[n + 1][key], arg[p + 1][key])))
                    /\ ret[idx + 1].confidence = Rat(1, 2)
                    /\ ret[idx + 1].frameIndex = idx

\* confidence pattern [1,0,0,1]: the two filled records sit at t = 1/3 and 2/3
C8_Witness ==
    /\ fn = "interpolate"
    /\ ConfPattern(arg) = <<One, Zero, Zero, One>>
    /\ arg[1].centerX = R(10) /\ arg[4].centerX = R(16)
    /\ ret[2].centerX = R(12) /\ ret[3].centerX = R(14)
    /\ arg[1].rotation = R(0) /\ arg[4].rotation = R(12)
    /\ ret[2].rotation = R(4) /\ ret[3].rotation = R(8)
    /\ ret[2].confidence = Rat(1, 2) /\ ret[3].confidence = Rat(1, 2)

\* C9: a record i with confidence <= 0 and a valid record on exactly one side
\* gets the five geometry fields of the nearest valid record on that side
\* and confidence 0.3.
C9_OneSidedCopy ==
    fn = "interpolate" =>
        \A idx \in 0..(Len(arg) - 1) :
            LET below == ValidBelow(arg, idx)
                above == ValidAbove(arg, idx)
            IN  (~IsValid(arg[idx + 1]) /\ ((below = {}) # (above = {}))) =>
                    /\ SameGeometry(ret[idx + 1],
                                    IF above = {} THEN arg[MaxOf(below) + 1]
                                    ELSE arg[MinOf(above) + 1])
                    /\ ret[idx + 1].confidence = Rat(3, 10)
                    /\ ret[idx + 1].frameIndex = idx

\* a leading and a trailing failed detection around two different valid records
C9_Witness ==
    /\ fn = "interpolate"
    /\ ConfPattern(arg) = <<Zero, One, One, Zero>>
    /\ ~SameGeometry(arg[2], arg[3])
    /\ SameGeometry(ret[1], arg[2]) /\ SameGeometry(ret[4], arg[3])
    /\ ~SameGeometry(ret[1], arg[1])
    /\ ret[1].confidence = Rat(3, 10) /\ ret[4].confidence = Rat(3, 10)

\* C10: on a list in which every record has confidence 0, interpolation,
\* smoothing and interpolation followed by smoothing return a list of the
\* same length whose records keep their geometry and frame index, with
\* confidence 0.3 or the confidence they had.
C10_AllInvalidIsNoOp ==
    (fn # "none" /\ \A k \in 1..Len(arg) : arg[k].confidence = Zero) =>
        /\ Len(ret) = Len(arg)
        /\ \A k \in 1..Len(arg) :
              /\ SameGeometry(ret[k], arg[k])
              /\ ret[k].frameIndex = arg[k].frameIndex
              /\ ret[k].confidence \in {Rat(3, 10), arg[k].confidence}

\* three failed detections through both stages with smoothing switched on
C10_Witness ==
    /\ fn = "interpolate_smooth"
    /\ Len(arg) = 3
    /\ \A k \in 1..Len(arg) : arg[k].confidence = Zero
    /\ fps > 0 /\ smooth_cutoff > 0
    /\ ret = arg

(***************************************************************************)
(* Properties of smooth_positions_zero_phase (under SpecPure)              *)
(***************************************************************************)
Smoothed == fn \in {"smooth", "interpolate_smooth"}

\* the list smooth_positions_zero_phase was called with
SmoothInput == given

\* smoothing was not skipped: the cutoff, the frame rate, the coefficient and
\* the number of valid records let the two passes run
SmoothingRan ==
    /\ Smoothed /\ smooth_cutoff > 0 /\ fps > 0
    /\ RLt(Zero, one_pole_beta(smooth_cutoff, fps))
    /\ RLt(one_pole_beta(smooth_cutoff, fps), One)
    /\ Cardinality(valid_indices(SmoothInput)) >= 2

\* C11: smooth_positions_zero_phase returns a list of the same length in
\* which every record keeps its confidence, frameIndex and timeSeconds, and
\* every record with confidence <= 0 keeps all its fields: only the five
\* geometry fields of records with confidence > 0 may differ from the input.
C11_SmoothingKeepsConfidenceAndIndex ==
    Smoothed =>
        LET input == SmoothInput IN
        /\ Len(ret) = Len(input)
        /\ \A k \in 1..Len(ret) :
              /\ ret[k].confidence = input[k].confidence
              /\ ret[k].frameIndex = input[k].frameIndex
              /\ ret[k].timeSeconds = input[k].timeSeconds
              /\ ~IsValid(input[k]) => ret[k] = input[k]

\* a failed detection in front of two valid records that smoothing rewrote
C11_Witness ==
    /\ fn = "smooth" /\ SmoothingRan
    /\ Len(arg) = 3
    /\ ~IsValid(arg[1]) /\ IsValid(arg[2]) /\ IsValid(arg[3])
    /\ ret[1] = arg[1]
    /\ ~SameGeometry(ret[2], arg[2]) /\ ~SameGeometry(ret[3], arg[3])

RAbs(x) == IF x.n < 0 THEN RSub(Zero, x) ELSE x

\* C12 (as claimed): a field in which all valid records of the input hold one
\* value is returned with exactly that value at every index.
C12_ConstantSignalIsFixedPoint ==
    Smoothed =>
        LET input == SmoothInput
            vs == valid_indices(input)
        IN  \A key \in keys :
                (\A a, b \in vs : input[a + 1][key] = input[b + 1][key]) =>
                    \A k \in 1..Len(ret) : ret[k][key] = input[k][key]

\* C12 (amended): a field in which all n valid records of the input hold one
\* value v is returned with v up to rounding at every valid index: each of
\* the 2(n-1) filter steps adds a relative error of at most 3 * 2^-p, p the
\* width of the significand.  The other records keep their value.
C12_ConstantSignalWithinRounding ==
    Smoothed =>
        LET input == SmoothInput
            vs == valid_indices(input)
            steps == 2 * (Cardinality(vs) - 1)
        IN  \A key \in keys :
                (\A a, b \in vs : input[a + 1][key] = input[b + 1][key]) =>
                    \A k \in 1..Len(ret) :
                        LET v == input[k][key] IN
                        IF (k - 1) \in vs
                        THEN RLe(RAbs(RSub(ret[k][key], v)),
                                 RMul(Rat(3 * steps, 2^SignificandBits), RAbs(v)))
                        ELSE ret[k][key] = v

\* three valid records with one centerY and different centerX: the filter ran,
\* moved centerX, and returned a centerY that rounding took off the constant
C12_Witness ==
    /\ fn = "smooth" /\ SmoothingRan
    /\ Len(arg) = 3
    /\ \A k \in 1..3 : IsValid(arg[k]) /\ arg[k].centerY = arg[1].centerY
    /\ arg[1].centerX # arg[2].centerX
    /\ \E k \in 1..3 : ret[k].centerX # arg[k].centerX
    /\ \E k \in 1..3 : ret[k].centerY # arg[k].centerY

\* the frame (0-based) at which a signal that goes from lo to hi is first at
\* the midpoint or beyond it, and the frame at which it is first beyond it;
\* Len(signal) if it never is
Midpoint(lo, hi) == RMul(Rat(1, 2), RAdd(lo, hi))
Toward(lo, hi, a, b) == IF RLt(lo, hi) THEN RLt(a, b) ELSE RLt(b, a)
FirstFrame(S, n) == IF S = {} THEN n ELSE MinOf(S) - 1
ReachesAt(signal, lo, hi) ==
    FirstFrame({j \in 1..Len(signal) : ~Toward(lo, hi, signal[j], Midpoint(lo, hi))},
               Len(signal))
PassesAt(signal, lo, hi) ==
    FirstFrame({j \in 1..Len(signal) : Toward(lo, hi, Midpoint(lo, hi), signal[j])},
               Len(signal))

\* the transition frame k of a step signal: the first frame at the second level
StepFrame(list) == MinOf({j \in 1..Len(list) : SameGeometry(list[j], StepHigh)}) - 1

\* the step signal of one key was smoothed: what C13 says of it for the
\* coefficient beta
StepResponseCentred(key, strictly_below_half) ==
    LET beta == one_pole_beta(smooth_cutoff, fps)
        values == [j \in 1..Len(given) |-> given[j][key]]
        forward == EmaForward(values, beta)
        two_pass == [j \in 1..Len(ret) |-> ret[j][key]]
        lo == StepLow[key]
        hi == StepHigh[key]
        k == StepFrame(given)
    IN  (strictly_below_half => RLt(beta, Rat(1, 2))) =>
            /\ Abs(ReachesAt(two_pass, lo, hi) - k) <= 1
            /\ Abs(PassesAt(two_pass, lo, hi) - k) <= 1
            /\ \/ ReachesAt(forward, lo, hi) > ReachesAt(two_pass, lo, hi)
               \/ PassesAt(forward, lo, hi) > PassesAt(two_pass, lo, hi)
            /\ forward # two_pass

RefStep == Max(1, Len(frames_cache) \div sample_count)
RefVisited == {v \in 0..(Len(frames_cache) - 1) : v % RefStep = 0}
RefQualified ==
    {v \in RefVisited : /\ RLe(Rat(1, 2), positions[v + 1].confidence)
                        /\ frames_cache[v + 1].warp_ok}
RefScoreAt(v) == ReferenceScore(frames_cache[v + 1], positions[v + 1])

\* C15: find_best_reference_frame looks at the frames 0, step, 2*step, ...
\* with step = max(1, totalFrames div sample_count) (sample_count = 20 as
\* process_video calls it), scores those with confidence >= 0.5 whose warp
\* succeeds, and returns the one with the least score, the earliest of them
\* on a tie; 0 if none qualifies.
C15_BestReferenceFrame ==
    fn = "reference" =>
        IF RefQualified = {} THEN ref_frame_idx = 0
        ELSE /\ ref_frame_idx \in RefQualified
             /\ \A v \in RefQualified :
                   /\ RLe(RefScoreAt(ref_frame_idx), RefScoreAt(v))
                   /\ RefScoreAt(v) = RefScoreAt(ref_frame_idx) => ref_frame_idx <= v

\* 40 frames with the default sample_count (step 2): the best frame sits at
\* frame 3, which is not looked at, and frame 0 does not qualify; the answer
\* is frame 2, the first of the equal frames that are looked at
C15_Witness ==
    /\ fn = "reference" /\ sample_count = sample_count_default
    /\ Len(frames_cache) = RefLongLen /\ RefStep = 2
    /\ ~frames_cache[1].warp_ok
    /\ RLt(RefScoreAt(3), RefScoreAt(2)) /\ RefScoreAt(4) = RefScoreAt(2)
    /\ ref_frame_idx = 2

\* the call returns at one of the early "return positions"
SmoothingSkipped ==
    \/ smooth_cutoff <= 0 \/ fps <= 0
    \/ ~(RLt(Zero, one_pole_beta(smooth_cutoff, fps)) /\
         RLt(one_pole_beta(smooth_cutoff, fps), One))
    \/ Cardinality(valid_indices(given)) < 2

\* the forward pass written out: the first value as it is, every later one
\* filtered against the forward value before it
RECURSIVE SeededForward(_, _, _)
SeededForward(values, beta, done) ==
    IF Len(done) = Len(values) THEN done
    ELSE LET j == Len(done) + 1
         IN  SeededForward(values, beta,
                 Append(done, IF j = 1 THEN values[1]
                              ELSE Ema(beta, values[j], done[j - 1])))

\* the backward pass written out: the last forward value as it is, every
\* earlier one filtered against the backward value after it
RECURSIVE SeededBackward(_, _, _)
SeededBackward(forward, beta, done) ==
    IF Len(done) = Len(forward) THEN done
    ELSE LET j == Len(forward) - Len(done)
         IN  SeededBackward(forward, beta,
                 <<IF done = <<>> THEN forward[j]
                   ELSE Ema(beta, forward[j], done[1])>> \o done)

\* C18: smooth_positions_zero_phase returns its input unchanged when
\* cutoff <= 0, fps <= 0, the coefficient beta is not strictly between 0 and
\* 1, or fewer than 2 records have confidence > 0.  In every other case each
\* field of the valid records is the backward pass of the forward pass of
\* the valid values: the forward pass starts from the first valid value, the
\* backward pass from the last forward value.
C18_SkipsOrSeedsWithFirstAndLast ==
    Smoothed =>
        IF SmoothingSkipped THEN ret = given
        ELSE LET beta == one_pole_beta(smooth_cutoff, fps)
                 vis == SortedSeq(valid_indices(given))
                 n == Len(vis)
             IN  \A key \in keys :
                    LET values == [j \in 1..n |-> given[vis[j] + 1][key]]
                        forward == SeededForward(values, beta, <<>>)
                        backward == SeededBackward(forward, beta, <<>>)
                    IN  \A j \in 1..n : ret[vis[j] + 1][key] = backward[j]

\* a frame rate of 0 with a positive cutoff: beta is 0, and three valid records
\* with different centres come back as they were given
C18_Witness ==
    /\ fn = "smooth" /\ fps = 0 /\ smooth_cutoff > 0
    /\ one_pole_beta(smooth_cutoff, fps) = Zero
    /\ Len(arg) = 3
    /\ \A k \in 1..3 : IsValid(arg[k])
    /\ arg[1].centerX # arg[2].centerX /\ arg[2].centerX # arg[3].centerX
    /\ ret = arg

\* interpolate_invalid_positions and then smooth_positions_zero_phase were
\* applied to a list with at least one detection and at least one failure
CombinedFlow ==
    /\ fn = "interpolate_smooth"
    /\ valid_indices(arg) # {}
    /\ \E k \in 1..Len(arg) : ~IsValid(arg[k])

\* C19 (as claimed): in the combined flow smoothing runs over the records
\* the detector reported with confidence > 0 only: a record filled by
\* interpolation keeps its interpolated values, and the detected records get
\* the values smoothing computes from the detected records alone.
C19_SmoothingOverDetectionsOnly ==
    CombinedFlow =>
        LET alone == smooth_positions_zero_phase(arg, fps, smooth_cutoff)
        IN  \A k \in 1..Len(arg) :
               IF IsValid(arg[k]) THEN SameGeometry(ret[k], alone[k])
               ELSE ret[k] = given[k]

\* C19 (amended): in the combined flow interpolation runs first and marks
\* every record it fills with a confidence > 0, so every record is a sample
\* of the smoothing that follows; when smoothing is not skipped, each field
\* of every record, the filled ones included, is the backward pass of the
\* forward pass over the interpolated values of all the records.
C19_SmoothingOverAllRecordsAfterInterpolation ==
    CombinedFlow =>
        /\ given = interpolate_invalid_positions(arg)
        /\ \A k \in 1..Len(given) : IsValid(given[k])
        /\ ~SmoothingSkipped =>
              \A key \in keys :
                 LET values == [k \in 1..Len(given) |-> given[k][key]]
                     forward == SeededForward(values, one_pole_beta(smooth_cutoff, fps), <<>>)
                     backward == SeededBackward(forward, one_pole_beta(smooth_cutoff, fps), <<>>)
                 IN  \A k \in 1..Len(given) : ret[k][key] = backward[k]

\* detection, failure, detection: the record interpolation filled carries
\* confidence 1/2 and smoothing moved it off its interpolated values, and
\* the first detection is not where smoothing the detections alone puts it
C19_Witness ==
    /\ CombinedFlow /\ SmoothingRan
    /\ Len(arg) = 3
    /\ IsValid(arg[1]) /\ ~IsValid(arg[2]) /\ IsValid(arg[3])
    /\ given[2].confidence = ConfInterpolated
    /\ ret[2].confidence = ConfInterpolated
    /\ ~SameGeometry(ret[2], given[2])
    /\ ~SameGeometry(ret[1], smooth_positions_zero_phase(arg, fps, smooth_cutoff)[1])

\* x lies between a and b, whichever of the two is the larger
Between(a, x, b) == (RLe(a, x) /\ RLe(x, b)) \/ (RLe(b, x) /\ RLe(x, a))

\* the list interpolate_invalid_positions returned, in the states that have one
Interpolated == IF fn = "interpolate" THEN ret ELSE given

\* every value interpolation wrote between two valid records lies between
\* the values of those two records
InterpolationWithinNeighbours ==
    fn \in {"interpolate", "interpolate_smooth"} =>
        \A idx \in 0..(Len(arg) - 1) :
            (~IsValid(arg[idx + 1]) /\ ValidBelow(arg, idx) # {}
                                    /\ ValidAbove(arg, idx) # {}) =>
                LET p == MaxOf(ValidBelow(arg, idx))
                    n == MinOf(ValidAbove(arg, idx))
                IN  \A key \in keys :
                        Between(arg[p + 1][key], Interpolated[idx + 1][key],
                                arg[n + 1][key])

\* every value of the valid records after smoothing lies within slack of the
\* range of that field over the valid records of the input, slack a fraction
\* of the largest magnitude among them
SmoothingWithinRange(slack) ==
    Smoothed =>
        LET vs == valid_indices(given) IN
        \A key \in keys :
            LET tol == IF vs = {} THEN Zero
                       ELSE RMul(slack, RAbs(given[(CHOOSE m \in vs : \A o \in vs :
                                RLe(RAbs(given[o + 1][key]), RAbs(given[m + 1][key]))) + 1][key]))
            IN  \A k \in vs :
                    /\ \E a \in vs : RLe(RSub(given[a + 1][key], tol), ret[k + 1][key])
                    /\ \E b \in vs : RLe(ret[k + 1][key], RAdd(given[b + 1][key], tol))

\* C23 (as claimed): interpolation and smoothing never leave the range of
\* their inputs: an interpolated value lies between the values of the two
\* valid neighbours, a smoothed value between the minimum and the maximum of
\* its field over the valid records of the input.
C23_ValuesWithinInputRange ==
    InterpolationWithinNeighbours /\ SmoothingWithinRange(Zero)

\* C23 (amended): an interpolated value lies between the values of the two
\* valid neighbours; a smoothed value lies between the minimum and the
\* maximum of its field over the n valid records of the input up to
\* rounding, 3 * 2^-p of the largest magnitude for each of the 2(n-1) filter
\* steps, p the width of the significand.
C23_ValuesWithinInputRangeUpToRounding ==
    /\ InterpolationWithinNeighbours
    /\ SmoothingWithinRange(
           Rat(3 * 2 * Max(0, Cardinality(valid_indices(given)) - 1), 2^SignificandBits))

\* detection, failure, detection: the filled record lies strictly between its
\* neighbours in centerX, and smoothing, with one centerY in all three
\* records, returns a centerY off that value
C23_Witness ==
    /\ fn = "interpolate_smooth" /\ SmoothingRan
    /\ Len(arg) = 3
    /\ IsValid(arg[1]) /\ ~IsValid(arg[2]) /\ IsValid(arg[3])
    /\ RLt(arg[1].centerX, given[2].centerX) /\ RLt(given[2].centerX, arg[3].centerX)
    /\ \A k \in 1..3 : given[k].centerY = given[1].centerY
    /\ \E k \in 1..3 : ret[k].centerY # given[1].centerY

(***************************************************************************)
(* Properties of convert_npz_to_json (under SpecConvert)                   *)
(***************************************************************************)
\* C25: with n >= 2 quads and det_stride s > 1, interpolate_positions returns
\* (n-1)*s + 1 records with the frame indices 0, 1, ..., (n-1)*s in order;
\* the record at m*s is the record made from quad m, unchanged; and
\* totalFrames of the result is the number of records emitted.
C25_InterpolatedStreamIsGapless ==
    (script = "convert_npz_to_json" /\ pc \in {"result", "done"}
        /\ Len(arg.quad) >= 2 /\ stride > 1) =>
        LET n == Len(arg.quad) IN
        /\ Len(given) = n
        /\ Len(positions) = (n - 1) * stride + 1
        /\ \A k \in 1..Len(positions) : positions[k].frameIndex = k - 1
        /\ \A m \in 0..(n - 1) :
              /\ positions[m * stride + 1] = given[m + 1]
              /\ given[m + 1] = quad_to_mouth_position(arg.quad[m + 1], m * stride)
        /\ pc = "done" =>
              /\ output_json[1].positions = positions
              /\ output_json[1].totalFrames = Len(output_json[1].positions)

\* three quads at det_stride 3: seven records emitted, the records 0, 3 and 6
\* the detected ones, the ones between them different from both neighbours
C25_Witness ==
    /\ script = "convert_npz_to_json" /\ pc = "done"
    /\ Len(arg.quad) = 3 /\ stride = 3
    /\ output_json[1].totalFrames = 7
    /\ given[1] # given[2] /\ given[2] # given[3]
    /\ output_json[1].positions[4] = given[2]
    /\ output_json[1].positions[5].centerX # given[2].centerX
    /\ output_json[1].positions[5].centerX # output_json[1].positions[6].centerX
    /\ output_json[1].positions[6].centerX # given[3].centerX
====
